---- MODULE Spec2Model ----
(***************************************************************************)
(* Model of src/_data/notion.js: the Notion data module of the blog.       *)
(*                                                                         *)
(*   Spec        the whole module function (data-source lookup, query,     *)
(*               property flattening, concurrent block fetches, outer      *)
(*               catch)                                                    *)
(*   SpecRender  the block -> markdown conversion, block by block          *)
(*   SpecSlug    slugify, applied once and then again to its own output    *)
(*                                                                         *)
(* JavaScript values are tagged records.  A string is a sequence of        *)
(* tokens: a token is one character wherever the code looks at characters  *)
(* (slugify), and an atomic piece of text otherwise (a type tag, a URL,    *)
(* a literal of the code).                                                 *)
(***************************************************************************)
EXTENDS Integers, Sequences, FiniteSets, TLC

VARIABLES
    pc,          \* where the module function is: start/awaitMeta/awaitQuery/awaitBlocks/done
    dataSourceId,\* what getDataSourceId returned
    queryResponse, \* what the query request settled to
    raw,         \* databaseData: what getDatabaseData returned
    results,     \* the flattened posts (const results)
    fetches,     \* per post: the block-children request and its state
    slots,       \* per post: the value its async callback resolved to
    completed,   \* the posts' indices in the order their requests settled
    log,         \* console.error / console.warn calls, in order
    output,      \* what the promise of the module function settled to
    rpc,         \* SpecRender: position in the block map
    blocks,      \* SpecRender: blockData.results
    mapped,      \* SpecRender: the lines mapped so far
    body,        \* SpecRender: mappedBlockData
    spc,         \* SpecSlug: position
    title,       \* SpecSlug: the argument of slugify
    slug,        \* SpecSlug: slugify(title)
    slug2        \* SpecSlug: slugify(slugify(title))

pipeVars ==
    <<pc, dataSourceId, queryResponse, raw, results, fetches, slots, completed,
      log, output>>
renderVars == <<rpc, blocks, mapped, body>>
slugVars == <<spc, title, slug, slug2>>
vars == <<pipeVars, renderVars, slugVars>>

----------------------------------------------------------------------------
(* Bounds *)

MaxPosts == 2
MaxBlocks == 3
MaxTitleLen == 4

----------------------------------------------------------------------------
(* JavaScript values *)

Undef == [t |-> "undefined"]
Null == [t |-> "null"]
\* An exception leaving an expression (a TypeError, a rejected await).
Thrown == [t |-> "throw"]
\* A promise that has not settled.
Pending == [t |-> "pending"]
Str(s) == [t |-> "string", s |-> s]
Arr(a) == [t |-> "array", a |-> a]
Obj(f) == [t |-> "object", f |-> f]
Lit(tok) == Str(<<tok>>)
Empty == Str(<<>>)

IsNullish(v) == v.t \in {"undefined", "null"}

\* ToBoolean: undefined, null and '' are falsy; objects, arrays and
\* non-empty strings are truthy.
Truthy(v) ==
    CASE v.t \in {"undefined", "null"} -> FALSE
      [] v.t = "string" -> v.s # <<>>
      [] OTHER -> TRUE

\* v[k] for a string key: a TypeError on undefined/null, undefined for a
\* missing key.
Get(v, k) ==
    CASE v.t = "throw" -> Thrown
      [] IsNullish(v) -> Thrown
      [] v.t = "object" -> IF k \in DOMAIN v.f THEN v.f[k] ELSE Undef
      [] OTHER -> Undef

\* v?.[k]
OptGet(v, k) == IF IsNullish(v) THEN Undef ELSE Get(v, k)

\* v[0]: the first element of an array, the first character of a string.
First(v) ==
    CASE v.t = "throw" -> Thrown
      [] IsNullish(v) -> Thrown
      [] v.t = "array" -> IF Len(v.a) > 0 THEN v.a[1] ELSE Undef
      [] v.t = "string" -> IF Len(v.s) > 0 THEN Lit(v.s[1]) ELSE Undef
      [] OTHER -> Undef

\* v?.[0]
OptFirst(v) == IF IsNullish(v) THEN Undef ELSE First(v)

\* v[key] for a computed key (property[property.type]): the key is
\* converted to a string; no object of the model has a key "undefined".
GetDyn(v, key) ==
    CASE v.t = "throw" -> Thrown
      [] IsNullish(v) -> Thrown
      [] key.t = "string" /\ Len(key.s) = 1 -> Get(v, key.s[1])
      [] OTHER -> Undef

\* Whether v.length is a number > 0 (a truthy length).
HasLength(v) ==
    CASE v.t = "array" -> Len(v.a) > 0
      [] v.t = "string" -> Len(v.s) > 0
      [] OTHER -> FALSE

IsArray(v) == v.t = "array"

\* a || ''
OrEmpty(v) == IF Truthy(v) THEN v ELSE Empty

----------------------------------------------------------------------------
(* slugify *)

UpperLetters == {"A", "M", "P"}
LowerLetters == {"a", "b", "d", "e", "m", "n", "o", "p", "s", "t", "y"}
Digits == {"1"}
Whitespace == {" "}
WordChars == UpperLetters \cup LowerLetters \cup Digits \cup {"_"}
Combining == {"U+0301"}

toLowerCase(s) ==
    [i \in 1..Len(s) |->
        CASE s[i] = "A" -> "a"
          [] s[i] = "M" -> "m"
          [] s[i] = "P" -> "p"
          [] OTHER -> s[i]]

RECURSIVE TrimStart(_)
TrimStart(s) ==
    IF s # <<>> /\ Head(s) \in Whitespace THEN TrimStart(Tail(s)) ELSE s

RECURSIVE TrimEnd(_)
TrimEnd(s) ==
    IF s # <<>> /\ s[Len(s)] \in Whitespace
    THEN TrimEnd(SubSeq(s, 1, Len(s) - 1)) ELSE s

trim(s) == TrimEnd(TrimStart(s))

\* .normalize('NFD'): a precomposed letter becomes base letter + mark.
RECURSIVE normalizeNFD(_)
normalizeNFD(s) ==
    IF s = <<>> THEN <<>>
    ELSE (IF Head(s) = "U+00E9" THEN <<"e", "U+0301">> ELSE <<Head(s)>>)
         \o normalizeNFD(Tail(s))

IsNotCombining(c) == c \notin Combining

\* .replace(/[U+0300-U+036F]/g, ''): the combining marks are removed.
StripMarks(s) == SelectSeq(s, IsNotCombining)

\* .replace(/\s+/g, '-'): each maximal run of whitespace becomes one hyphen.
RECURSIVE ReplaceSpaces(_)
ReplaceSpaces(s) ==
    IF s = <<>> THEN <<>>
    ELSE IF Head(s) \in Whitespace
         THEN <<"-">> \o ReplaceSpaces(TrimStart(s))
         ELSE <<Head(s)>> \o ReplaceSpaces(Tail(s))

\* .replace(/&/g, '-and-')
RECURSIVE ReplaceAmp(_)
ReplaceAmp(s) ==
    IF s = <<>> THEN <<>>
    ELSE (IF Head(s) = "&" THEN <<"-", "a", "n", "d", "-">> ELSE <<Head(s)>>)
         \o ReplaceAmp(Tail(s))

IsSlugChar(c) == c \in WordChars \cup {"-"}

\* .replace(/[^\w\-]+/g, '')
StripNonWord(s) == SelectSeq(s, IsSlugChar)

RECURSIVE DropHyphens(_)
DropHyphens(s) ==
    IF s # <<>> /\ Head(s) = "-" THEN DropHyphens(Tail(s)) ELSE s

\* .replace(/--+/g, '-'): each run of two or more hyphens becomes one.
RECURSIVE CollapseHyphens(_)
CollapseHyphens(s) ==
    IF s = <<>> THEN <<>>
    ELSE IF Head(s) = "-"
         THEN <<"-">> \o CollapseHyphens(DropHyphens(s))
         ELSE <<Head(s)>> \o CollapseHyphens(Tail(s))

\* The replace chain with the last two steps exchanged.
SlugChainCollapseFirst(s) ==
    StripNonWord(CollapseHyphens(ReplaceAmp(ReplaceSpaces(
        StripMarks(normalizeNFD(trim(toLowerCase(s))))))))

SlugChain(s) ==
    CollapseHyphens(StripNonWord(ReplaceAmp(ReplaceSpaces(
        StripMarks(normalizeNFD(trim(toLowerCase(s))))))))

\* text ? text.toString()... : ''   (the Title is a string or undefined)
slugify(text) ==
    IF Truthy(text) /\ text.t = "string" THEN Str(SlugChain(text.s)) ELSE Empty

----------------------------------------------------------------------------
(* SpecSlug *)

RECURSIVE SeqsUpTo(_, _)
SeqsUpTo(S, n) ==
    IF n = 0 THEN {<<>>}
    ELSE LET shorter == SeqsUpTo(S, n - 1)
         IN shorter \cup {Append(s, c) : s \in shorter, c \in S}

TitleAlphabet == {"A", "b", "1", "_", " ", "&", "-", "!", "U+00E9"}
Titles == {Undef} \cup {Str(s) : s \in SeqsUpTo(TitleAlphabet, MaxTitleLen)}

SlugIdle == spc = "idle" /\ title = Undef /\ slug = Undef /\ slug2 = Undef

Slugify ==
    /\ spc = "start"
    /\ slug' = slugify(title)
    /\ spc' = "once"
    /\ UNCHANGED <<title, slug2>>

SlugifyAgain ==
    /\ spc = "once"
    /\ slug2' = slugify(slug)
    /\ spc' = "twice"
    /\ UNCHANGED <<title, slug>>

----------------------------------------------------------------------------
(* The block map of the module function *)

\* blockContent?.text?.[0]?.text?.content || ''
FirstTextContent(blockContent) ==
    OrEmpty(OptGet(OptGet(OptFirst(OptGet(blockContent, "text")), "text"),
                   "content"))

\* `![post block related](${blockContent?.file?.url || ''})`
ImageText(blockContent) ==
    Str(<<"![post block related](">>
        \o OrEmpty(OptGet(OptGet(blockContent, "file"), "url")).s
        \o <<")">>)

\* The switch on block.type: <<mdConvert, mdText>>.
BlockSwitch(type, blockContent) ==
    CASE type = Lit("heading_1") -> <<Lit("#"), FirstTextContent(blockContent)>>
      [] type = Lit("heading_2") -> <<Lit("##"), FirstTextContent(blockContent)>>
      [] type = Lit("heading_3") -> <<Lit("###"), FirstTextContent(blockContent)>>
      [] type = Lit("bulleted_list_item") ->
             <<Lit("- "), FirstTextContent(blockContent)>>
      [] type = Lit("paragraph") -> <<Empty, FirstTextContent(blockContent)>>
      [] type = Lit("image") -> <<Empty, ImageText(blockContent)>>
      [] OTHER -> <<Empty, FirstTextContent(blockContent)>>

\* mdConvert && mdText ? `${mdConvert} ${mdText}` : mdText
BlockLine(md) ==
    IF Truthy(md[1]) /\ Truthy(md[2])
    THEN Str(md[1].s \o <<" ">> \o md[2].s)
    ELSE md[2]

\* The callback without its guard on the block and without its try/catch:
\* block.type on a null block is a TypeError that leaves the callback.
ConvertBlockUnguarded(block) ==
    LET type == Get(block, "type")
        blockContent == GetDyn(block, type)
    IN  IF type = Thrown THEN Thrown
        ELSE IF ~Truthy(type) \/ ~Truthy(blockContent) THEN Empty
        ELSE BlockLine(BlockSwitch(type, blockContent))

\* The body of the try in the map callback; Thrown when it throws.
ConvertBlockBody(block) ==
    IF ~Truthy(block) THEN Empty
    ELSE LET type == Get(block, "type")
         IN  IF ~Truthy(type) THEN Empty
             ELSE LET blockContent == GetDyn(block, type)
                  IN  IF ~Truthy(blockContent) THEN Empty
                      ELSE BlockLine(BlockSwitch(type, blockContent))

\* try { ... } catch (error) { console.warn(...); return ''; }
ConvertBlock(block) ==
    LET line == ConvertBlockBody(block)
    IN  IF line = Thrown THEN Empty ELSE line

\* .map(block => ...): the lines, or Thrown when a callback throws.
MapBlocks(bs) ==
    LET lines == [i \in 1..Len(bs) |-> ConvertBlock(bs[i])]
    IN  IF \E i \in 1..Len(bs) : lines[i] = Thrown THEN Thrown ELSE Arr(lines)

\* The filter keeping every line, empty ones too.
FilterLinesKeepAll(lines) == lines

\* .filter(text => text.length > 0)
FilterLines(lines) == SelectSeq(lines, HasLength)

\* .join('\n')
RECURSIVE JoinLines(_)
JoinLines(lines) ==
    IF lines = <<>> THEN Empty
    ELSE IF Len(lines) = 1 THEN Str(lines[1].s)
    ELSE Str(lines[1].s \o <<"\n">> \o JoinLines(Tail(lines)).s)

\* mappedBlockData for the array (blockData.results || []).
RenderBlocks(bs) ==
    LET lines == MapBlocks(bs)
    IN  IF lines = Thrown THEN Thrown ELSE JoinLines(FilterLines(lines.a))

----------------------------------------------------------------------------
(* Blocks as the API returns them, and malformed ones *)

TextRun(tok) == Obj("text" :> Obj("content" :> Lit(tok)))
TextPayload(tok) == Obj("text" :> Arr(<<TextRun(tok)>>))
Block(type, payload) == Obj(("type" :> Lit(type)) @@ (type :> payload))

H1Intro == Block("heading_1", TextPayload("Intro"))
H2Sub == Block("heading_2", TextPayload("Sub"))
H3Deep == Block("heading_3", TextPayload("Deep"))
BulletItem == Block("bulleted_list_item", TextPayload("Item"))
ParaBody == Block("paragraph", TextPayload("Body text"))
ImageXY == Block("image", Obj("file" :> Obj("url" :> Lit("http://x/y.png"))))
ImageNoFile == Block("image", Obj(<<>>))
QuoteText == Block("quote", TextPayload("Quoted"))
Divider == Block("divider", Obj(<<>>))
H1NoRuns == Block("heading_1", Obj("text" :> Arr(<<>>)))
ParaEmptyFirstRun ==
    Block("paragraph",
          Obj("text" :> Arr(<<Obj("text" :> Obj("content" :> Empty)),
                              TextRun("tail")>>)))
ParaNullRun == Block("paragraph", Obj("text" :> Arr(<<Null>>)))
ParaNoPayload == Obj("type" :> Lit("paragraph"))
H2StringPayload == Block("heading_2", Lit("oops"))
NoTypeBlock == Obj("paragraph" :> TextPayload("Lost"))

GoodBlocks ==
    {H1Intro, H2Sub, H3Deep, BulletItem, ParaBody, ImageXY, ImageNoFile, QuoteText}
BadBlocks == {Null, Divider, H1NoRuns, ParaEmptyFirstRun, ParaNullRun,
              ParaNoPayload, H2StringPayload, NoTypeBlock}
BlockCatalog == GoodBlocks \cup BadBlocks

----------------------------------------------------------------------------
(* SpecRender *)

RenderIdle == rpc = "idle" /\ blocks = <<>> /\ mapped = <<>> /\ body = Undef

\* One call of the map callback, for the next block of the array.
MapBlock ==
    /\ rpc = "map"
    /\ Len(mapped) < Len(blocks)
    /\ mapped' = Append(mapped, ConvertBlock(blocks[Len(mapped) + 1]))
    /\ UNCHANGED <<rpc, blocks, body>>

\* .filter(...).join('\n') once every block is mapped.
FilterJoin ==
    /\ rpc = "map"
    /\ Len(mapped) = Len(blocks)
    /\ body' = JoinLines(FilterLines(mapped))
    /\ rpc' = "done"
    /\ UNCHANGED <<blocks, mapped>>

----------------------------------------------------------------------------
(* Property flattening *)

\* The order in which Object.entries lists the properties of a post.
PropOrder ==
    <<"Title", "Status", "Published", "Tags", "Cover", "Summary", "id", "slug">>

IsKeyOf(o, k) == k \in DOMAIN o.f

\* Object.entries(o): the <<key, value>> pairs; a TypeError on undefined/null.
Entries(o) ==
    IF o.t # "object" THEN Thrown
    ELSE LET Has(k) == IsKeyOf(o, k)
             keys == SelectSeq(PropOrder, Has)
         IN  Arr([i \in 1..Len(keys) |-> <<keys[i], o.f[keys[i]]>>])

\* The filter callback:
\*   property.select || (property[property.type] && property[property.type].length)
\* "keep", "drop", or "throw" when property is undefined/null.
FilterProperty(entry) ==
    LET property == entry[2]
    IN  IF IsNullish(property) THEN "throw"
        ELSE IF Truthy(Get(property, "select")) THEN "keep"
        ELSE LET payload == GetDyn(property, Get(property, "type"))
             IN  IF Truthy(payload) /\ HasLength(payload) THEN "keep" ELSE "drop"

\* The body of the try of mapNotionResponseToTextContent: an object with the
\* one key, undefined after a break, Thrown when it throws.
MapPropertyBody(entry) ==
    LET key == entry[1]
        property == entry[2]
        type == Get(property, "type")
        payload == GetDyn(property, type)
    IN  CASE type = Thrown -> Thrown
          [] type \in {Lit("rich_text"), Lit("text"), Lit("title")} ->
                IF Truthy(payload) /\ IsArray(payload) /\ HasLength(payload)
                THEN Obj(key :> OrEmpty(OptGet(OptGet(First(payload), "text"),
                                               "content")))
                ELSE Undef
          [] type = Lit("files") ->
                IF Truthy(payload) /\ IsArray(payload) /\ HasLength(payload)
                THEN Obj(key :> OrEmpty(OptGet(OptGet(First(payload), "file"),
                                               "url")))
                ELSE Undef
          [] type = Lit("select") ->
                IF Truthy(payload)
                THEN Obj(key :> OrEmpty(OptGet(payload, "name")))
                ELSE Undef
          [] OTHER -> Undef

\* try { ... } catch (error) { console.warn(...) }: undefined after a throw.
mapNotionResponseToTextContent(entry) ==
    LET mappedEntry == MapPropertyBody(entry)
    IN  IF mappedEntry = Thrown THEN Undef ELSE mappedEntry

\* .reduce((previousValue, currentValue) => ({...previousValue, ...currentValue}), {})
RECURSIVE MergeAll(_)
MergeAll(objs) ==
    IF objs = <<>> THEN Obj(<<>>)
    ELSE LET previousValue == MergeAll(SubSeq(objs, 1, Len(objs) - 1))
             currentValue == objs[Len(objs)]
         IN  IF currentValue.t = "object"
             THEN Obj(currentValue.f @@ previousValue.f)
             ELSE previousValue

\* flattenedProperties of a post, or Thrown.
FlattenProperties(properties) ==
    LET entries == Entries(properties)
    IN  IF entries = Thrown THEN Thrown
        ELSE IF \E i \in 1..Len(entries.a) : FilterProperty(entries.a[i]) = "throw"
        THEN Thrown
        ELSE LET Keep(e) == FilterProperty(e) = "keep"
                 kept == SelectSeq(entries.a, Keep)
             IN  MergeAll([i \in 1..Len(kept) |->
                              mapNotionResponseToTextContent(kept[i])])

\* { id: post.id, created: post.created_time, url: post.url,
\*   slug: slugify(flattenedProperties.Title), ...flattenedProperties }
ResultRecord(post, flattenedProperties) ==
    Obj(flattenedProperties.f
        @@ (("id" :> Get(post, "id"))
            @@ ("created" :> Get(post, "created_time"))
            @@ ("url" :> Get(post, "url"))
            @@ ("slug" :> slugify(Get(flattenedProperties, "Title")))))

\* The callback of databaseData.map: the result record, or Thrown.
FlattenPost(post) ==
    LET flattenedProperties == FlattenProperties(Get(post, "properties"))
    IN  IF flattenedProperties = Thrown THEN Thrown
        ELSE ResultRecord(post, flattenedProperties)

\* databaseData.map(...): Thrown when databaseData is no array or a callback
\* throws.
FlattenAll(databaseData) ==
    IF databaseData.t # "array" THEN Thrown
    ELSE LET flat == [i \in 1..Len(databaseData.a) |->
                         FlattenPost(databaseData.a[i])]
         IN  IF \E i \in 1..Len(flat) : flat[i] = Thrown THEN Thrown
             ELSE Arr(flat)

----------------------------------------------------------------------------
(* Posts and responses of the API *)

TextRunOf(s) == Obj("text" :> Obj("content" :> Str(s)))
TitleProp(s) == Obj(("type" :> Lit("title")) @@ ("title" :> Arr(<<TextRunOf(s)>>)))
RichTextProp(tok) ==
    Obj(("type" :> Lit("rich_text")) @@ ("rich_text" :> Arr(<<TextRun(tok)>>)))
EmptyRichTextProp == Obj(("type" :> Lit("rich_text")) @@ ("rich_text" :> Arr(<<>>)))
SelectProp(tok) ==
    Obj(("type" :> Lit("select")) @@ ("select" :> Obj("name" :> Lit(tok))))
FilesProp(tok) ==
    Obj(("type" :> Lit("files"))
        @@ ("files" :> Arr(<<Obj("file" :> Obj("url" :> Lit(tok)))>>)))
DateProp(tok) == Obj(("type" :> Lit("date")) @@ ("date" :> Obj("start" :> Lit(tok))))
MultiSelectProp(tok) ==
    Obj(("type" :> Lit("multi_select"))
        @@ ("multi_select" :> Arr(<<Obj("name" :> Lit(tok))>>)))

MyPost == <<"M", "y", " ", "P", "o", "s", "t">>

RawPost(id, properties) ==
    Obj(("id" :> Lit(id)) @@ ("created_time" :> Lit("created:" \o id))
        @@ ("url" :> Lit("https://notion.so/" \o id))
        @@ ("properties" :> Obj(properties)))

PostPlain ==
    RawPost("p1", ("Title" :> TitleProp(MyPost))
                  @@ ("Status" :> SelectProp("Published"))
                  @@ ("Published" :> DateProp("2025-02-01"))
                  @@ ("Tags" :> MultiSelectProp("family"))
                  @@ ("Cover" :> FilesProp("http://x/cover.png"))
                  @@ ("Summary" :> EmptyRichTextProp))
PostNullProp ==
    RawPost("p2", ("Title" :> TitleProp(<<"A", " ", "b">>)) @@ ("Cover" :> Null))
PostIdProp ==
    RawPost("p3", ("Title" :> TitleProp(<<"b", "&", "1">>))
                  @@ ("id" :> RichTextProp("legacy-7")))
PostSlugProp ==
    RawPost("p4", ("Title" :> TitleProp(MyPost))
                  @@ ("slug" :> RichTextProp("custom")))
PostNoTitle ==
    RawPost("p5", ("Status" :> SelectProp("Published"))
                  @@ ("Summary" :> RichTextProp("no title")))

PostCatalog == {PostPlain, PostNullProp, PostIdProp, PostSlugProp, PostNoTitle}

IsInjective(s) == \A i, j \in 1..Len(s) : s[i] = s[j] => i = j

\* The result lists a query may return: distinct pages, in any order.
RawPostLists == {s \in SeqsUpTo(PostCatalog, MaxPosts) : IsInjective(s)}

\* What the database request may resolve to.
MetaResponses ==
    {Null,
     Obj(<<>>),
     Obj("data_sources" :> Arr(<<>>)),
     Obj("data_sources" :> Arr(<<Obj(<<>>)>>)),
     Obj("data_sources" :> Arr(<<Obj("id" :> Lit("ds1"))>>)),
     Obj("data_sources" :> Arr(<<Obj("id" :> Lit("ds1")), Obj("id" :> Lit("ds2"))>>))}

\* What the query request may resolve to.
QueryResponses ==
    {Null, Obj("object" :> Lit("error"))}
    \cup {Obj("results" :> Arr(s)) : s \in RawPostLists}

\* What a block-children request may resolve to.
BlockResponses ==
    {Null,
     Obj("object" :> Lit("error")),
     Obj("results" :> Arr(<<H1Intro, ParaBody, ImageXY>>)),
     Obj("results" :> Arr(<<Null, H1Intro, NoTypeBlock, ParaNoPayload, ParaBody,
                            Divider, H2StringPayload, BulletItem, H1NoRuns>>))}

----------------------------------------------------------------------------
(* The module function and the three requests *)

\* The body of the try of getDataSourceId, given what the request settled to
\* (Thrown: the request failed): the id, or Thrown.
DataSourceIdBody(databaseResponse) ==
    LET data_sources == Get(databaseResponse, "data_sources")
    IN  IF data_sources = Thrown THEN Thrown
        ELSE IF Truthy(data_sources) /\ HasLength(data_sources)
        THEN Get(First(data_sources), "id")
        ELSE Thrown

\* catch (error) { console.error("Error fetching data source ID:", ...); throw error; }
getDataSourceId(databaseResponse) == DataSourceIdBody(databaseResponse)

DataSourceLog(databaseResponse) ==
    IF DataSourceIdBody(databaseResponse) = Thrown
    THEN <<"Error fetching data source ID:">> ELSE <<>>

\* The catch of getDatabaseData rethrowing instead of returning [].
DatabaseCatchRethrows(completion) == completion

\* catch (error) { console.error("Error fetching Notion database:", ...); return []; }
DatabaseCatch(completion) ==
    IF completion = Thrown THEN Arr(<<>>) ELSE completion

DatabaseLog(completion) ==
    IF completion = Thrown THEN <<"Error fetching Notion database:">> ELSE <<>>

\* The outer handler rethrowing instead of returning { posts: [] }.
OuterCatchRethrows(completion) == completion

\* catch (error) { console.error("Error in notion data module:", error);
\*                 return { posts: [] }; }
OuterCatch(completion) ==
    IF completion = Thrown THEN Obj("posts" :> Arr(<<>>)) ELSE completion

OuterLog(completion) ==
    IF completion = Thrown THEN <<"Error in notion data module:">> ELSE <<>>

\* The async callback of results.map once its request settled to blockData.
PostWithBlocks(result, blockData) ==
    LET blockResults == Get(blockData, "results")
    IN  IF blockResults = Thrown THEN Thrown
        ELSE LET mappedBlockData ==
                     IF Truthy(blockResults) THEN RenderBlocks(blockResults.a)
                     ELSE RenderBlocks(<<>>)
             IN  IF mappedBlockData = Thrown THEN Thrown
                 ELSE Obj(("block" :> mappedBlockData) @@ result.f)

\* A collection that skips the posts whose callback rejected.
PromiseAllSkipRejected(promises, order) ==
    IF \E i \in 1..Len(promises) : promises[i] = Pending THEN Pending
    ELSE LET Fulfilled(v) == v # Thrown
         IN  Arr(SelectSeq(promises, Fulfilled))

\* A collection in the order of completion.
PromiseAllCompletionOrder(promises, order) ==
    IF \E i \in 1..Len(promises) : promises[i] = Thrown THEN Thrown
    ELSE IF \E i \in 1..Len(promises) : promises[i] = Pending THEN Pending
    ELSE Arr([k \in 1..Len(order) |-> promises[order[k]]])

\* Promise.all: rejected with the first rejection, fulfilled with the values
\* by position once all are fulfilled.
PromiseAll(promises, order) ==
    IF \E i \in 1..Len(promises) : promises[i] = Thrown THEN Thrown
    ELSE IF \E i \in 1..Len(promises) : promises[i] = Pending THEN Pending
    ELSE Arr(promises)

\* The value of the try body once Promise.all has settled.
TryBody(finalResult) ==
    IF finalResult = Thrown THEN Thrown ELSE Obj("posts" :> finalResult)

Init ==
    /\ pc = "start"
    /\ dataSourceId = Pending
    /\ queryResponse = Pending
    /\ raw = Pending
    /\ results = <<>>
    /\ fetches = <<>>
    /\ slots = <<>>
    /\ completed = <<>>
    /\ log = <<>>
    /\ output = Pending
    /\ RenderIdle
    /\ SlugIdle

\* The module function is called: getDatabaseData, getDataSourceId, and the
\* database request is issued.
Invoke ==
    /\ pc = "start"
    /\ pc' = "awaitMeta"
    /\ UNCHANGED <<dataSourceId, queryResponse, raw, results, fetches, slots,
                   completed, log, output>>

\* The rest of the module function from the return of getDatabaseData to its
\* await of Promise.all: the flattening and the issue of every block request.
AfterQuery(databaseData, newLog) ==
    LET flat == FlattenAll(databaseData)
    IN  /\ raw' = databaseData
        /\ completed' = completed
        /\ IF flat = Thrown
           THEN /\ output' = OuterCatch(Thrown)
                /\ log' = newLog \o OuterLog(Thrown)
                /\ pc' = "done"
                /\ UNCHANGED <<results, fetches, slots>>
           ELSE /\ results' = flat.a
                /\ fetches' = [i \in 1..Len(flat.a) |->
                                  [blockId |-> Get(flat.a[i], "id"),
                                   status |-> "pending",
                                   response |-> Pending]]
                /\ slots' = [i \in 1..Len(flat.a) |-> Pending]
                /\ log' = newLog
                /\ IF flat.a = <<>>
                   THEN /\ output' = OuterCatch(TryBody(PromiseAll(<<>>, <<>>)))
                        /\ pc' = "done"
                   ELSE /\ output' = output
                        /\ pc' = "awaitBlocks"

\* The database request settles and getDataSourceId throws: getDatabaseData
\* catches, and the module function goes on with what it returns.
MetaFails ==
    /\ pc = "awaitMeta"
    /\ \E databaseResponse \in MetaResponses \cup {Thrown} :
          /\ getDataSourceId(databaseResponse) = Thrown
          /\ dataSourceId' = Thrown
          /\ UNCHANGED queryResponse
          /\ AfterQuery(DatabaseCatch(Thrown),
                        log \o DataSourceLog(databaseResponse)
                            \o DatabaseLog(Thrown))

\* The database request settles and names a data source: the query is issued.
MetaSucceeds ==
    /\ pc = "awaitMeta"
    /\ \E databaseResponse \in MetaResponses :
          /\ getDataSourceId(databaseResponse) # Thrown
          /\ dataSourceId' = getDataSourceId(databaseResponse)
          /\ pc' = "awaitQuery"
          /\ UNCHANGED <<queryResponse, raw, results, fetches, slots, completed,
                         log, output>>

\* The query request settles (Thrown: it failed).
QuerySettles ==
    /\ pc = "awaitQuery"
    /\ \E dataBaseData \in QueryResponses \cup {Thrown} :
          LET completion == Get(dataBaseData, "results")
          IN  /\ AfterQuery(DatabaseCatch(completion),
                            log \o DatabaseLog(completion))
              /\ queryResponse' = dataBaseData
              /\ UNCHANGED dataSourceId

\* The block request of post i settles to blockData (Thrown: it failed); the
\* callback of post i runs, and Promise.all with the outer handler after it.
BlockSettles(i, blockData) ==
    /\ pc \in {"awaitBlocks", "done"}
    /\ i \in 1..Len(fetches)
    /\ fetches[i].status = "pending"
    /\ fetches' = [fetches EXCEPT ![i] = [blockId |-> fetches[i].blockId,
                                          status |-> "settled",
                                          response |-> blockData]]
    /\ slots' = [slots EXCEPT ![i] = PostWithBlocks(results[i], blockData)]
    /\ completed' = Append(completed, i)
    /\ IF pc = "awaitBlocks" /\ PromiseAll(slots', completed') # Pending
       THEN LET completion == TryBody(PromiseAll(slots', completed'))
            IN  /\ output' = OuterCatch(completion)
                /\ log' = log \o OuterLog(completion)
                /\ pc' = "done"
       ELSE UNCHANGED <<output, log, pc>>
    /\ UNCHANGED <<dataSourceId, queryResponse, raw, results>>

BlockResolves == \E i \in 1..MaxPosts + 1, blockData \in BlockResponses :
                     BlockSettles(i, blockData)

BlockRejects == \E i \in 1..MaxPosts + 1 : BlockSettles(i, Thrown)

Next ==
    \/ Invoke /\ UNCHANGED <<renderVars, slugVars>>
    \/ MetaFails /\ UNCHANGED <<renderVars, slugVars>>
    \/ MetaSucceeds /\ UNCHANGED <<renderVars, slugVars>>
    \/ QuerySettles /\ UNCHANGED <<renderVars, slugVars>>
    \/ BlockResolves /\ UNCHANGED <<renderVars, slugVars>>
    \/ BlockRejects /\ UNCHANGED <<renderVars, slugVars>>

Spec == Init /\ [][Next]_vars

PipeIdle ==
    /\ pc = "idle"
    /\ dataSourceId = Pending
    /\ queryResponse = Pending
    /\ raw = Pending
    /\ results = <<>>
    /\ fetches = <<>>
    /\ slots = <<>>
    /\ completed = <<>>
    /\ log = <<>>
    /\ output = Pending

InitRender ==
    /\ rpc = "map"
    /\ blocks \in SeqsUpTo(BlockCatalog, MaxBlocks)
    /\ mapped = <<>>
    /\ body = Undef
    /\ PipeIdle
    /\ SlugIdle

NextRender ==
    \/ MapBlock /\ UNCHANGED <<pipeVars, slugVars>>
    \/ FilterJoin /\ UNCHANGED <<pipeVars, slugVars>>

SpecRender == InitRender /\ [][NextRender]_vars

InitSlug ==
    /\ spc = "start"
    /\ title \in Titles
    /\ slug = Undef
    /\ slug2 = Undef
    /\ PipeIdle
    /\ RenderIdle

NextSlug ==
    \/ Slugify /\ UNCHANGED <<pipeVars, renderVars>>
    \/ SlugifyAgain /\ UNCHANGED <<pipeVars, renderVars>>

SpecSlug == InitSlug /\ [][NextSlug]_vars

----------------------------------------------------------------------------
(* What the claims speak of *)

NoPosts == Obj("posts" :> Arr(<<>>))

IsPostsObject(v) ==
    /\ v.t = "object"
    /\ DOMAIN v.f = {"posts"}
    /\ v.f.posts.t = "array"

Fetched(i) == fetches[i].status = "settled"
FetchFailed(i) == Fetched(i) /\ fetches[i].response \in {Thrown, Null}

\* Every post was flattened, every block request answered, every callback
\* fulfilled.
Succeeded ==
    /\ pc = "done"
    /\ raw.t = "array"
    /\ Len(fetches) = Len(raw.a)
    /\ \A i \in 1..Len(fetches) : Fetched(i) /\ ~FetchFailed(i)

\* The reference rendering of one block: its kind, its prefix, its text.
RefKind(b) ==
    IF b.t = "object" /\ "type" \in DOMAIN b.f /\ b.f.type.t = "string"
       /\ Len(b.f.type.s) = 1
    THEN b.f.type.s[1] ELSE "none"

RefPrefix(kind) ==
    CASE kind = "heading_1" -> <<"#">>
      [] kind = "heading_2" -> <<"##">>
      [] kind = "heading_3" -> <<"###">>
      [] kind = "bulleted_list_item" -> <<"- ">>
      [] OTHER -> <<>>

HasObject(o, k) == o.t = "object" /\ k \in DOMAIN o.f /\ o.f[k].t = "object"
HasString(o, k) == o.t = "object" /\ k \in DOMAIN o.f /\ o.f[k].t = "string"

RefFirstRun(payload) ==
    IF /\ payload.t = "object" /\ "text" \in DOMAIN payload.f
       /\ payload.f.text.t = "array" /\ Len(payload.f.text.a) > 0
       /\ HasObject(payload.f.text.a[1], "text")
       /\ HasString(payload.f.text.a[1].f.text, "content")
    THEN payload.f.text.a[1].f.text.f.content.s
    ELSE <<>>

RefFileUrl(payload) ==
    IF HasObject(payload, "file") /\ HasString(payload.f.file, "url")
    THEN payload.f.file.f.url.s ELSE <<>>

RefText(b) ==
    LET kind == RefKind(b)
    IN  IF kind = "none" \/ ~HasObject(b, kind) THEN <<>>
        ELSE IF kind = "image"
        THEN <<"![post block related](">> \o RefFileUrl(b.f[kind]) \o <<")">>
        ELSE RefFirstRun(b.f[kind])

RefLine(b) ==
    IF RefText(b) = <<>> THEN <<>>
    ELSE IF RefPrefix(RefKind(b)) # <<>>
    THEN RefPrefix(RefKind(b)) \o <<" ">> \o RefText(b)
    ELSE RefText(b)

\* The surviving lines, in block order, with one newline between them.
RECURSIVE RefJoin(_, _)
RefJoin(bs, acc) ==
    IF bs = <<>> THEN acc
    ELSE IF RefLine(Head(bs)) = <<>> THEN RefJoin(Tail(bs), acc)
    ELSE IF acc = <<>> THEN RefJoin(Tail(bs), RefLine(Head(bs)))
    ELSE RefJoin(Tail(bs), acc \o <<"\n">> \o RefLine(Head(bs)))

RefRender(bs) == Str(RefJoin(bs, <<>>))

IsGoodBlock(b) == b \in GoodBlocks

\* The blocks a response carries.
ResponseBlocks(response) ==
    IF response.t = "object" /\ "results" \in DOMAIN response.f
    THEN response.f.results.a ELSE <<>>

\* The reference flattening of one property: whether it is mapped, to what.
RefKinds == {"rich_text", "text", "title", "files", "select"}

RefQualifies(property) ==
    /\ RefKind(property) \in RefKinds
    /\ RefKind(property) \in DOMAIN property.f
    /\ LET payload == property.f[RefKind(property)]
       IN  IF RefKind(property) = "select" THEN payload # Null
           ELSE payload.t = "array" /\ Len(payload.a) > 0

RefDisplay(property) ==
    LET kind == RefKind(property)
        payload == property.f[kind]
    IN  CASE kind = "select" ->
               IF HasString(payload, "name") THEN payload.f.name ELSE Empty
          [] kind = "files" ->
               IF HasObject(payload.a[1], "file")
                  /\ HasString(payload.a[1].f.file, "url")
               THEN payload.a[1].f.file.f.url ELSE Empty
          [] OTHER ->
               IF HasObject(payload.a[1], "text")
                  /\ HasString(payload.a[1].f.text, "content")
               THEN payload.a[1].f.text.f.content ELSE Empty

RefTitle(properties) ==
    IF "Title" \in DOMAIN properties /\ RefQualifies(properties["Title"])
    THEN RefDisplay(properties["Title"]) ELSE Undef

NoDoubleHyphen(s) == \A i \in 1..Len(s) - 1 : ~(s[i] = "-" /\ s[i + 1] = "-")

----------------------------------------------------------------------------
(* The claims *)

\* C1: the module function never rejects: whatever the three kinds of
\* request settle to, its promise is pending only while a request it waits
\* for is outstanding and settles to an object {posts: <array>}; when the
\* query request fails the object is exactly {posts: []}.
C1_NeverThrows ==
    /\ output # Pending => IsPostsObject(output)
    /\ output = Pending <=> pc # "done"
    /\ pc = "awaitBlocks" => \E i \in 1..Len(fetches) : ~Fetched(i)
    /\ queryResponse = Thrown => pc = "done" /\ output = NoPosts

C1_Witness ==
    /\ pc = "done"
    /\ queryResponse = Thrown
    /\ output = NoPosts
    /\ log = <<"Error fetching Notion database:">>

\* C2: when the module function succeeds, the output has one post per raw
\* post and the post at position i is the one derived from raw post i with
\* the body rendered from the answer to request i, whatever the order in
\* which the block requests completed.
C2_OrderPreserved ==
    Succeeded =>
        /\ IsPostsObject(output)
        /\ Len(output.f.posts.a) = Len(raw.a)
        /\ \A i \in 1..Len(raw.a) :
              output.f.posts.a[i]
                  = PostWithBlocks(FlattenPost(raw.a[i]), fetches[i].response)

C2_Witness ==
    /\ Succeeded
    /\ Len(raw.a) = 2
    /\ completed = <<2, 1>>
    /\ Get(output.f.posts.a[1], "url") = Get(raw.a[1], "url")
    /\ Get(output.f.posts.a[2], "url") = Get(raw.a[2], "url")

\* C3: flattening never throws: once the query has returned a list of
\* posts, every one of them has its flattened record, and a property
\* whose value is null is merely left out of its record.
C3_FlattenNeverThrows ==
    raw.t = "array" =>
        /\ Len(results) = Len(raw.a)
        /\ \A i \in 1..Len(results) :
              \A k \in DOMAIN raw.a[i].f.properties.f :
                  raw.a[i].f.properties.f[k] = Null => k \notin DOMAIN results[i].f

\* C4: a block that cannot be converted (null, no type, no or malformed
\* payload, unknown type without text) costs only its own line: the body of
\* the post is the lines of its other blocks in order, and the post is in
\* the output.
C4_BlockFailureIsolated ==
    /\ \A i \in 1..Len(fetches) :
          Fetched(i) /\ ~FetchFailed(i) =>
              /\ slots[i].t = "object"
              /\ Get(slots[i], "block")
                     = RefRender(SelectSeq(ResponseBlocks(fetches[i].response),
                                           IsGoodBlock))
    /\ Succeeded =>
          \A i \in 1..Len(fetches) : output.f.posts.a[i] = slots[i]

C4_Witness ==
    /\ Succeeded
    /\ \E i \in 1..Len(fetches) :
          /\ \E k \in 1..Len(ResponseBlocks(fetches[i].response)) :
                 ResponseBlocks(fetches[i].response)[k] = Null
          /\ Get(output.f.posts.a[i], "block")
                 = Str(<<"#", " ", "Intro", "\n", "Body text", "\n",
                         "- ", " ", "Item">>)

C6_FetchUsesOwnId ==
    raw.t = "array" /\ results # <<>> =>
        /\ Len(fetches) = Len(raw.a)
        /\ \A i \in 1..Len(fetches) :
              /\ fetches[i].blockId = Get(raw.a[i], "id")
              /\ Get(results[i], "id") = Get(raw.a[i], "id")

\* C7: the body rendered from a sequence of blocks is the reference
\* rendering: per block "<prefix> <text>" when prefix and first text run are
\* both non-empty, the text alone when there is no prefix, no line when the
\* text is empty; the lines joined in block order by single newlines.
C7_RenderMatchesReference ==
    rpc = "done" => body = RefRender(blocks)

C7_Witness ==
    /\ rpc = "done"
    /\ blocks = <<H1Intro, ParaBody, ImageXY>>
    /\ body = Str(<<"#", " ", "Intro", "\n", "Body text", "\n",
                    "![post block related](", "http://x/y.png", ")">>)

\* C8: the record of a post holds exactly the properties that are non-empty
\* and of kind rich_text, text, title, files or select, each with its
\* display string, and its slug is the slugified flattened Title.
C8_FlattenedMapping ==
    \A i \in 1..Len(results) :
        LET properties == raw.a[i].f.properties.f
            record == results[i].f
        IN  /\ \A k \in DOMAIN properties \ {"id", "created", "url", "slug"} :
                  /\ k \in DOMAIN record <=> RefQualifies(properties[k])
                  /\ k \in DOMAIN record => record[k] = RefDisplay(properties[k])
            /\ DOMAIN record \subseteq
                   DOMAIN properties \cup {"id", "created", "url", "slug"}
            /\ record["slug"] = slugify(RefTitle(properties))

\* C9: a slug holds only word characters and hyphens, never two hyphens in
\* a row; slugify leaves its own output unchanged; the empty and the
\* undefined title give the empty slug.
C9_SlugShape ==
    /\ spc # "start" =>
          /\ slug.t = "string"
          /\ \A i \in 1..Len(slug.s) : slug.s[i] \in WordChars \cup {"-"}
          /\ NoDoubleHyphen(slug.s)
          /\ title \in {Undef, Empty} => slug = Empty
    /\ spc = "twice" => slug2 = slug

C9_Witness ==
    /\ spc = "twice"
    /\ title = Str(<<"-", "!", "-">>)
    /\ slug = Str(<<"-">>)
    /\ slug2 = slug

\* C10: block fetching is all or nothing: as soon as the block request of
\* one post has failed (rejected, or answered null) the module function has
\* resolved to {posts: []}, whatever the other requests did and in whatever
\* order; a non-empty output means every request succeeded.
C10_AllOrNothing ==
    /\ (\E i \in 1..Len(fetches) : FetchFailed(i)) =>
          pc = "done" /\ output = NoPosts
    /\ (output # Pending /\ output # NoPosts) =>
          \A i \in 1..Len(fetches) : Fetched(i) /\ ~FetchFailed(i)

C10_Witness ==
    /\ pc = "done"
    /\ output = NoPosts
    /\ Len(fetches) = 2
    /\ completed = <<2, 1>>
    /\ ~FetchFailed(2)
    /\ FetchFailed(1)

====
